---- MODULE Spec2Model ----
(***************************************************************************)
(* Model of the bookings and properties route handlers of the property-   *)
(* rental backend: the Booking and Property collections, the handlers of  *)
(* /api/bookings and /api/properties, and the booking schema's hooks.     *)
(***************************************************************************)
EXTENDS Integers, Sequences, FiniteSets, TLC

(* ---------------------------------------------------------------- bounds *)

\* Number of Booking documents the store is ever given when requests run one
\* at a time (Spec, SpecAuth).
MaxBookings == 1

\* Number of Booking documents the store is ever given by the two connections
\* of SpecRace.
MaxRaceBookings == 2

\* Number of Booking documents the store is ever given in SpecLife.
MaxLifeBookings == 2

\* Number of image files the asset store is ever given (SpecAssets).
MaxAssets == 2

\* Largest views count a GET /properties/:id is let to write (SpecViews).
MaxViews == 2

\* 1000 * 60 * 60 * 24, the divisor of the day computation.
MsPerDay == 86400000

(* ---------------------------------------------------------------- inputs *)

\* Identities resolved by the auth middleware; a1 carries role 'admin'.
Users == {"u1", "u2", "a1"}

Role(u) == IF u = "a1" THEN "admin" ELSE "user"

\* The Property _ids the store hands out, in this order.
PropIds == {1, 2}
\* The :id of a request: the Booking _ids the store hands out and one it never does.
BookingIds == 1 .. (MaxBookings + 1)

\* The property field of a POST /bookings body: 0 stands for an empty field.
ReqPropIds == {0} \cup PropIds

\* A body field that is not an ISO 8601 date.
NotADate == -1

\* (checkIn, checkOut) pairs of the requests, in milliseconds: one millisecond,
\* three days less one millisecond, two whole days, equal dates, reversed dates,
\* a malformed date. <<0, 1>> and <<1, 3 days>> touch, <<0, 1>> and
\* <<1 day, 3 days>> are disjoint, the other pairs overlap.
DateInputs ==
  { <<0, 1>>, <<1, 3 * MsPerDay>>, <<MsPerDay, 3 * MsPerDay>>,
    <<MsPerDay, MsPerDay>>, <<3 * MsPerDay, 0>>, <<NotADate, MsPerDay>> }

Guests == {0, 1}

Prices == {100}

Statuses == {"pending", "confirmed", "cancelled", "completed"}
PaymentStatuses == {"pending", "paid", "refunded"}

\* An absent body field.
None == "none"

\* A status string outside the schema's enum.
BadStatus == "bogus"

StatusInputs == Statuses \cup {None, BadStatus}
PaymentInputs == PaymentStatuses \cup {None}
ReasonInputs == {None, "reason"}
AvailableInputs == {None, "true", "false"}

NoProperty == [absent |-> TRUE]

(* ----------------------------------------------------------------- state *)

VARIABLES
  properties,   \* Property collection: PropIds -> document or NoProperty
  nextProp,     \* next Property _id the store hands out
  bookings,     \* Booking collection: set of documents
  nextBooking,  \* next Booking _id the store hands out
  resp,         \* the response of the last completed request
  inflight,     \* requests suspended at an await, per connection
  assets,       \* the asset store: names of the image files it holds
  nextAsset,    \* next file name the upload middleware hands out
  USE_CLOUDINARY \* asset-store selection, resolved when the process starts

vars == <<properties, nextProp, bookings, nextBooking, resp, inflight,
          assets, nextAsset, USE_CLOUDINARY>>

\* What the bookings handlers never touch.
assetVars == <<assets, nextAsset, USE_CLOUDINARY>>

\* Connections that may hold a request open at the same time.
Clients == {1, 2}

Idle == [pc |-> "idle"]

\* A response: the handler that sent it, the identity it went to, the HTTP
\* status and the message.
Reply(op, to, code, msg) == [op |-> op, to |-> to, code |-> code, msg |-> msg]

(* ------------------------------------------------------- Booking schema *)

\* PreValidate that refuses only a checkOut before checkIn.
PreValidate_AllowsEqual(checkIn, checkOut) == ~(checkOut < checkIn)

\* bookingSchema.pre('validate'): fails when checkOut <= checkIn.
PreValidate(checkIn, checkOut) == ~(checkOut <= checkIn)

\* Math.ceil(n / d) for d > 0.
Ceil(n, d) == IF n % d = 0 THEN n \div d ELSE (n \div d) + 1

\* bookingSchema.virtual('duration')
Duration(b) == Ceil(b.checkOut - b.checkIn, MsPerDay)

(* ------------------------------------------------------- POST /bookings *)

\* express-validator chain of POST /bookings.
ValidationOk(p, checkIn, checkOut, g) ==
  /\ p # 0
  /\ checkIn # NotADate
  /\ checkOut # NotADate
  /\ g >= 1

FindProperty(p) == IF p \in PropIds THEN properties[p] ELSE NoProperty

\* Conflicts with open intervals: bookings that only touch are let through.
Conflicts_Strict(b, p, checkIn, checkOut) ==
  /\ b.property = p
  /\ b.status \in {"pending", "confirmed"}
  /\ b.checkIn < checkOut
  /\ b.checkOut > checkIn

\* The filter of the conflict query on one stored booking.
Conflicts(b, p, checkIn, checkOut) ==
  /\ b.property = p
  /\ b.status \in {"pending", "confirmed"}
  /\ b.checkIn <= checkOut
  /\ b.checkOut >= checkIn

\* Booking.findOne(...) of the conflict check: is there a matching document.
ConflictingBooking(bks, p, checkIn, checkOut) ==
  \E b \in bks : Conflicts(b, p, checkIn, checkOut)

\* Days by truncation instead of rounding up.
Days_Floor(checkIn, checkOut) == (checkOut - checkIn) \div MsPerDay

\* days = Math.ceil((checkOutDate - checkInDate) / (1000 * 60 * 60 * 24))
Days(checkIn, checkOut) == Ceil(checkOut - checkIn, MsPerDay)

TotalPrice(price, checkIn, checkOut) == price * Days(checkIn, checkOut)

\* The document Booking.create persists, with the schema's defaults.
NewBooking(id, caller, p, checkIn, checkOut, g, price) ==
  [ id |-> id, property |-> p, user |-> caller,
    checkIn |-> checkIn, checkOut |-> checkOut, guests |-> g,
    totalPrice |-> TotalPrice(price, checkIn, checkOut),
    status |-> "pending", paymentStatus |-> "pending",
    cancelledAt |-> FALSE, cancellationReason |-> FALSE ]

\* The outcome of the handler on the store as it is, before any write.
PostBookingOutcome(caller, p, checkIn, checkOut, g) ==
  IF ~ValidationOk(p, checkIn, checkOut, g) THEN Reply("postBooking", caller, 400, "validation")
  ELSE IF FindProperty(p) = NoProperty THEN Reply("postBooking", caller, 404, "propertyNotFound")
  ELSE IF ~FindProperty(p).isAvailable THEN Reply("postBooking", caller, 400, "unavailable")
  ELSE IF ConflictingBooking(bookings, p, checkIn, checkOut)
    THEN Reply("postBooking", caller, 400, "alreadyBooked")
  ELSE IF ~PreValidate(checkIn, checkOut) THEN Reply("postBooking", caller, 500, "dateOrder")
  ELSE Reply("postBooking", caller, 201, "created")

PostBooking(caller, p, checkIn, checkOut, g) ==
  LET out == PostBookingOutcome(caller, p, checkIn, checkOut, g) IN
  /\ resp' = out
  /\ IF out.code = 201
       THEN /\ bookings' = bookings \cup
                 { NewBooking(nextBooking, caller, p, checkIn, checkOut, g,
                              FindProperty(p).price) }
            /\ nextBooking' = nextBooking + 1
       ELSE UNCHANGED <<bookings, nextBooking>>
  /\ UNCHANGED assetVars
  /\ UNCHANGED <<properties, nextProp, inflight>>

(* ---------------------------------------------------- GET /bookings/:id *)

FindBooking(id) == { b \in bookings : b.id = id }

GetBookingOutcome(caller, id) ==
  IF FindBooking(id) = {} THEN Reply("getBooking", caller, 404, "bookingNotFound")
  ELSE LET b == CHOOSE x \in FindBooking(id) : TRUE
           prop == FindProperty(b.property)
       IN IF b.user = caller \/ Role(caller) = "admin"
            THEN Reply("getBooking", caller, 200, "ok")
          \* booking.property is null: reading .owner throws, caught as 500
          ELSE IF prop = NoProperty THEN Reply("getBooking", caller, 500, "serverError")
          ELSE IF prop.owner # caller THEN Reply("getBooking", caller, 403, "notAuthorized")
          ELSE Reply("getBooking", caller, 200, "ok")

GetBooking(caller, id) ==
  /\ resp' = GetBookingOutcome(caller, id)
  /\ UNCHANGED assetVars
  /\ UNCHANGED <<properties, nextProp, bookings, nextBooking, inflight>>

(* ---------------------------------------------------- PUT /bookings/:id *)

\* The document after findByIdAndUpdate(id, updateData).
UpdatedBooking(b, isPropertyOwner, isAdmin, status, paymentStatus, reason) ==
  LET s1 == IF status # None THEN [b EXCEPT !.status = status] ELSE b
      s2 == IF status = "cancelled" THEN [s1 EXCEPT !.cancelledAt = TRUE] ELSE s1
      s3 == IF status = "cancelled" /\ reason # None
              THEN [s2 EXCEPT !.cancellationReason = TRUE] ELSE s2
  IN IF paymentStatus # None /\ (isPropertyOwner \/ isAdmin)
       THEN [s3 EXCEPT !.paymentStatus = paymentStatus] ELSE s3

\* The response of the handler on the store as it is.
PutBookingOutcome(caller, id, status) ==
  IF FindBooking(id) = {} THEN Reply("putBooking", caller, 404, "bookingNotFound")
  ELSE LET b == CHOOSE x \in FindBooking(id) : TRUE
           prop == FindProperty(b.property)
       IN \* booking.property is null: reading .owner throws, caught as 500
          IF prop = NoProperty THEN Reply("putBooking", caller, 500, "serverError")
          ELSE IF ~(b.user = caller) /\ ~(prop.owner = caller) /\ ~(Role(caller) = "admin")
            THEN Reply("putBooking", caller, 403, "notAuthorized")
          \* runValidators: a status outside the enum is refused, caught as 500
          ELSE IF status = BadStatus THEN Reply("putBooking", caller, 500, "serverError")
          ELSE Reply("putBooking", caller, 200, "updated")

PutBooking(caller, id, status, paymentStatus, reason) ==
  LET out == PutBookingOutcome(caller, id, status) IN
  /\ resp' = out
  /\ UNCHANGED assetVars
  /\ UNCHANGED <<properties, nextProp, nextBooking, inflight>>
  /\ IF out.code = 200
       THEN LET b == CHOOSE x \in FindBooking(id) : TRUE
                isPropertyOwner == FindProperty(b.property).owner = caller
                isAdmin == Role(caller) = "admin"
            IN bookings' = (bookings \ {b}) \cup
                 { UpdatedBooking(b, isPropertyOwner, isAdmin,
                                  status, paymentStatus, reason) }
       ELSE UNCHANGED bookings

(* ------------------------------------------------- DELETE /bookings/:id *)

\* adminOnly middleware
AdminOnly(caller) == Role(caller) = "admin"

DeleteBooking(caller, id) ==
  /\ UNCHANGED assetVars
  /\ UNCHANGED <<properties, nextProp, nextBooking, inflight>>
  /\ IF ~AdminOnly(caller)
       THEN /\ resp' = Reply("deleteBooking", caller, 403, "adminOnly")
            /\ UNCHANGED bookings
     ELSE IF FindBooking(id) = {}
       THEN /\ resp' = Reply("deleteBooking", caller, 404, "bookingNotFound")
            /\ UNCHANGED bookings
     ELSE /\ resp' = Reply("deleteBooking", caller, 200, "deleted")
          /\ bookings' = bookings \ FindBooking(id)

(* ------------------------------------------------------ the asset store *)

\* The faults one request meets: the store call of the handler rejects
\* (Property.create, findByIdAndUpdate, findByIdAndDelete), the files whose
\* deletion the asset store refuses, and whether a deletion that was refused
\* in the try block is refused again in the catch block.
Fault(store, bad, again) == [store |-> store, bad |-> bad, again |-> again]

NoFault == Fault(FALSE, {}, FALSE)

\* The code of a request whose handler ended without sending a response.
NoResponse == 0

Range(s) == { s[i] : i \in DOMAIN s }

\* upload.array('images', 5): the n files of the request are in the asset
\* store, under fresh names, before the handler runs.
Upload(n) == [i \in 1 .. n |-> nextAsset + i - 1]

\* files.forEach(f => { if (fs.existsSync(f)) fs.unlinkSync(f) }): a refused
\* unlinkSync throws out of the loop, the files after it are not reached.
RECURSIVE UnlinkAll(_, _, _)
UnlinkAll(files, stored, bad) ==
  IF files = <<>> THEN [assets |-> stored, threw |-> FALSE]
  ELSE IF Head(files) \in stored /\ Head(files) \in bad
    THEN [assets |-> stored, threw |-> TRUE]
  ELSE UnlinkAll(Tail(files), stored \ {Head(files)}, bad)

\* files.forEach(f => cloudinary.uploader.destroy(f).catch(log)): a refused
\* destroy is logged, the loop goes on and nothing is thrown.
DestroyAll(files, stored, bad) ==
  [assets |-> stored \ (Range(files) \ bad), threw |-> FALSE]

\* The delete-uploaded-files block of the properties handlers.
DeleteFiles(files, stored, bad) ==
  IF USE_CLOUDINARY THEN DestroyAll(files, stored, bad)
  ELSE UnlinkAll(files, stored, bad)

\* The catch block of POST and PUT /properties: delete the uploaded files,
\* then answer 500. A throw of the cleanup leaves the handler's promise
\* rejected and the request without a response.
Catch(op, caller, files, stored, bad) ==
  LET c == DeleteFiles(files, stored, bad) IN
  [ reply |-> IF c.threw THEN Reply(op, caller, NoResponse, "unhandledRejection")
              ELSE Reply(op, caller, 500, "serverError"),
    assets |-> c.assets ]

\* A cleanup inside the try block followed by return res.status(...).json(...).
TryCleanup(op, caller, reply, files, stored, fault) ==
  LET c == DeleteFiles(files, stored, fault.bad) IN
  IF c.threw
    THEN Catch(op, caller, files, c.assets, IF fault.again THEN fault.bad ELSE {})
    ELSE [reply |-> reply, assets |-> c.assets]

(* ------------------------------------------------------ /api/properties *)

\* Every caller passes the ownership check.
IsOwnerOrAdmin_Anyone(caller, prop) == TRUE

\* The ownership check of PUT and DELETE /properties/:id.
IsOwnerOrAdmin(caller, prop) == prop.owner = caller \/ Role(caller) = "admin"

\* The document Property.create persists, with the schema's defaults.
NewProperty(caller, price, files) ==
  [ owner |-> caller, price |-> price, isAvailable |-> TRUE,
    images |-> files, views |-> 0 ]

\* POST /properties on the asset store as it is after the upload.
PostPropertyOutcome(caller, valid, files, fault) ==
  LET stored == assets \cup Range(files) IN
  IF ~valid
    THEN TryCleanup("postProperty", caller,
                    Reply("postProperty", caller, 400, "validation"),
                    files, stored, fault)
  ELSE IF fault.store THEN Catch("postProperty", caller, files, stored, fault.bad)
  ELSE [ reply |-> Reply("postProperty", caller, 201, "created"), assets |-> stored ]

\* POST /properties: upload, manual validation, then Property.create with
\* owner = caller and the uploaded files as images.
PostProperty(caller, price, valid, n, fault) ==
  LET files == Upload(n)
      out == PostPropertyOutcome(caller, valid, files, fault)
  IN /\ UNCHANGED <<bookings, nextBooking, inflight, USE_CLOUDINARY>>
     /\ resp' = out.reply
     /\ assets' = out.assets
     /\ nextAsset' = nextAsset + n
     /\ IF out.reply.code = 201
          THEN /\ nextProp \in PropIds
               /\ properties' = [properties EXCEPT ![nextProp] =
                                   NewProperty(caller, price, files)]
               /\ nextProp' = nextProp + 1
          ELSE UNCHANGED <<properties, nextProp>>

PutPropertyOutcome(caller, id, files, fault) ==
  LET stored == assets \cup Range(files) IN
  IF FindProperty(id) = NoProperty
    THEN TryCleanup("putProperty", caller,
                    Reply("putProperty", caller, 404, "propertyNotFound"),
                    files, stored, fault)
  ELSE IF ~IsOwnerOrAdmin(caller, FindProperty(id))
    THEN TryCleanup("putProperty", caller,
                    Reply("putProperty", caller, 403, "notAuthorized"),
                    files, stored, fault)
  ELSE IF fault.store THEN Catch("putProperty", caller, files, stored, fault.bad)
  ELSE [ reply |-> Reply("putProperty", caller, 200, "updated"), assets |-> stored ]

\* PUT /properties/:id: upload, then updateData as parsed from the body, with
\* the uploaded files appended to images, is applied by findByIdAndUpdate.
PutProperty(caller, id, newOwner, newAvailable, n, fault) ==
  LET files == Upload(n)
      out == PutPropertyOutcome(caller, id, files, fault)
  IN /\ UNCHANGED <<bookings, nextBooking, nextProp, inflight, USE_CLOUDINARY>>
     /\ resp' = out.reply
     /\ assets' = out.assets
     /\ nextAsset' = nextAsset + n
     /\ IF out.reply.code = 200
          THEN properties' = [properties EXCEPT ![id] =
                 [ owner |-> IF newOwner = None THEN @.owner ELSE newOwner,
                   price |-> @.price,
                   isAvailable |-> IF newAvailable = None THEN @.isAvailable
                                   ELSE newAvailable = "true",
                   images |-> IF n > 0 THEN @.images \o files ELSE @.images,
                   views |-> @.views ]]
          ELSE UNCHANGED properties

DeletePropertyOutcome(caller, id, fault) ==
  IF FindProperty(id) = NoProperty
    THEN [ reply |-> Reply("deleteProperty", caller, 404, "propertyNotFound"),
           assets |-> assets ]
  ELSE IF ~IsOwnerOrAdmin(caller, FindProperty(id))
    THEN [ reply |-> Reply("deleteProperty", caller, 403, "notAuthorized"),
           assets |-> assets ]
  ELSE LET c == DeleteFiles(FindProperty(id).images, assets, fault.bad) IN
       [ reply |-> IF c.threw \/ fault.store
                     THEN Reply("deleteProperty", caller, 500, "serverError")
                     ELSE Reply("deleteProperty", caller, 200, "deleted"),
         assets |-> c.assets ]

\* DELETE /properties/:id: deletes the image files, then the Property
\* document; the Booking collection is not touched.
DeleteProperty(caller, id, fault) ==
  LET out == DeletePropertyOutcome(caller, id, fault) IN
  /\ UNCHANGED <<bookings, nextBooking, nextProp, inflight, nextAsset, USE_CLOUDINARY>>
  /\ resp' = out.reply
  /\ assets' = out.assets
  /\ IF out.reply.code = 200
       THEN properties' = [properties EXCEPT ![id] = NoProperty]
       ELSE UNCHANGED properties

(* ------------------------------- POST /bookings, one store call at a time *)

\* The handler's locals after the validation chain has passed.
Request(caller, p, checkIn, checkOut, g) ==
  [ pc |-> "findProperty", caller |-> caller, property |-> p,
    checkIn |-> checkIn, checkOut |-> checkOut, guests |-> g, price |-> 0 ]

Finish(c, reply) ==
  /\ resp' = reply
  /\ inflight' = [inflight EXCEPT ![c] = Idle]

Goto(c, pc) ==
  /\ inflight' = [inflight EXCEPT ![c].pc = pc]
  /\ UNCHANGED resp

\* validationResult(req): synchronous, before the first store call.
PostBegin(c, caller, p, checkIn, checkOut, g) ==
  /\ inflight[c] = Idle
  /\ UNCHANGED assetVars
  /\ UNCHANGED <<properties, nextProp, bookings, nextBooking>>
  /\ IF ~ValidationOk(p, checkIn, checkOut, g)
       THEN Finish(c, Reply("postBooking", caller, 400, "validation"))
       ELSE /\ inflight' = [inflight EXCEPT ![c] =
                              Request(caller, p, checkIn, checkOut, g)]
            /\ UNCHANGED resp

\* await Property.findById(propertyId), then the two checks on the document.
PostFindProperty(c) ==
  /\ inflight[c].pc = "findProperty"
  /\ UNCHANGED assetVars
  /\ UNCHANGED <<properties, nextProp, bookings, nextBooking>>
  /\ LET prop == FindProperty(inflight[c].property) IN
     IF prop = NoProperty
       THEN Finish(c, Reply("postBooking", inflight[c].caller, 404, "propertyNotFound"))
     ELSE IF ~prop.isAvailable
       THEN Finish(c, Reply("postBooking", inflight[c].caller, 400, "unavailable"))
     ELSE /\ inflight' = [inflight EXCEPT ![c].pc = "findConflict",
                                           ![c].price = prop.price]
          /\ UNCHANGED resp

\* await Booking.findOne({... conflict filter ...})
PostFindConflict(c) ==
  /\ inflight[c].pc = "findConflict"
  /\ UNCHANGED assetVars
  /\ UNCHANGED <<properties, nextProp, bookings, nextBooking>>
  /\ IF ConflictingBooking(bookings, inflight[c].property,
                           inflight[c].checkIn, inflight[c].checkOut)
       THEN Finish(c, Reply("postBooking", inflight[c].caller, 400, "alreadyBooked"))
       ELSE Goto(c, "create")

\* PostCreate as a conditional insert: the conflict filter is evaluated again,
\* atomically with the insert.
PostCreate_Conditional(c) ==
  /\ inflight[c].pc = "create"
  /\ UNCHANGED assetVars
  /\ UNCHANGED <<properties, nextProp>>
  /\ LET r == inflight[c] IN
     IF ~PreValidate(r.checkIn, r.checkOut)
       THEN /\ Finish(c, Reply("postBooking", inflight[c].caller, 500, "dateOrder"))
            /\ UNCHANGED <<bookings, nextBooking>>
     ELSE IF ConflictingBooking(bookings, r.property, r.checkIn, r.checkOut)
       THEN /\ Finish(c, Reply("postBooking", inflight[c].caller, 400, "alreadyBooked"))
            /\ UNCHANGED <<bookings, nextBooking>>
     ELSE /\ bookings' = bookings \cup
               { NewBooking(nextBooking, r.caller, r.property, r.checkIn,
                            r.checkOut, r.guests, r.price) }
          /\ nextBooking' = nextBooking + 1
          /\ Goto(c, "populate")

\* await Booking.create({...}): the pre('validate') hook, then the insert.
PostCreate(c) ==
  /\ inflight[c].pc = "create"
  /\ UNCHANGED assetVars
  /\ UNCHANGED <<properties, nextProp>>
  /\ LET r == inflight[c] IN
     IF ~PreValidate(r.checkIn, r.checkOut)
       THEN /\ Finish(c, Reply("postBooking", inflight[c].caller, 500, "dateOrder"))
            /\ UNCHANGED <<bookings, nextBooking>>
       ELSE /\ bookings' = bookings \cup
                 { NewBooking(nextBooking, r.caller, r.property, r.checkIn,
                              r.checkOut, r.guests, r.price) }
            /\ nextBooking' = nextBooking + 1
            /\ Goto(c, "populate")

\* await Booking.findById(booking._id).populate(...), then the 201.
PostPopulate(c) ==
  /\ inflight[c].pc = "populate"
  /\ UNCHANGED assetVars
  /\ UNCHANGED <<properties, nextProp, bookings, nextBooking>>
  /\ Finish(c, Reply("postBooking", inflight[c].caller, 201, "created"))

(* ------------------------ GET /properties/:id, one store call at a time *)

\* await Property.findById(id): the handler holds its own copy of the
\* document; property.views += 1 is done on that copy.
GetPropertyFind(c, id) ==
  /\ inflight[c] = Idle
  /\ UNCHANGED <<properties, nextProp, bookings, nextBooking>>
  /\ UNCHANGED assetVars
  /\ IF FindProperty(id) = NoProperty
       THEN Finish(c, Reply("getProperty", None, 404, "propertyNotFound"))
       ELSE /\ inflight' = [inflight EXCEPT ![c] =
                 [pc |-> "save", id |-> id, views |-> FindProperty(id).views + 1]]
            /\ UNCHANGED resp

\* await property.save(): writes the views of the handler's copy; a document
\* deleted since the read makes save reject, caught as 500.
GetPropertySave(c) ==
  /\ inflight[c].pc = "save"
  /\ UNCHANGED <<nextProp, bookings, nextBooking>>
  /\ UNCHANGED assetVars
  /\ IF FindProperty(inflight[c].id) = NoProperty
       THEN /\ Finish(c, Reply("getProperty", None, 500, "serverError"))
            /\ UNCHANGED properties
       ELSE /\ properties' = [properties EXCEPT
                                ![inflight[c].id].views = inflight[c].views]
            /\ Finish(c, Reply("getProperty", None, 200, "ok"))

(* --------------------------------------------------------- specifications *)

\* The state after the process has started with the given asset-store
\* selection: empty collections, an empty uploads directory, no request yet.
Boot(cloud) ==
  /\ properties = [p \in PropIds |-> NoProperty]
  /\ nextProp = 1
  /\ bookings = {}
  /\ nextBooking = 1
  /\ resp = Reply("none", None, 0, "none")
  /\ inflight = [c \in Clients |-> Idle]
  /\ assets = {}
  /\ nextAsset = 1
  /\ USE_CLOUDINARY = cloud

\* No Cloudinary credentials in the environment: local storage.
Init == Boot(FALSE)

\* Either asset-store selection.
InitAssets == \E cloud \in BOOLEAN : Boot(cloud)

\* Spec: every request runs to completion before the next one starts. The
\* guest books; the host lists, withdraws and deletes properties; the admin
\* sets booking statuses and deletes bookings.
Guest == "u1"
Host == "u2"
Admin == "a1"

\* The store is given no more than max bookings: a request that would insert
\* one more is not sent.
Room(max, out) == out.code = 201 => nextBooking <= max

Next ==
  \/ \E p \in ReqPropIds, d \in DateInputs, g \in Guests :
       /\ Room(MaxBookings, PostBookingOutcome(Guest, p, d[1], d[2], g))
       /\ PostBooking(Guest, p, d[1], d[2], g)
  \/ \E id \in BookingIds, s \in StatusInputs :
       PutBooking(Admin, id, s, None, None)
  \/ \E id \in BookingIds : DeleteBooking(Admin, id)
  \/ \E pr \in Prices, v \in BOOLEAN : PostProperty(Host, pr, v, 0, NoFault)
  \/ \E id \in PropIds, a \in AvailableInputs : PutProperty(Host, id, None, a, 0, NoFault)
  \/ \E id \in PropIds : DeleteProperty(Host, id, NoFault)

Spec == Init /\ [][Next]_vars

\* SpecAuth: one property listed by any identity, booked by either user (also
\* by its owner), and every identity sending every body of PUT /bookings/:id.
NextAuth ==
  \/ \E c \in {Guest, Host} :
       /\ Room(MaxBookings, PostBookingOutcome(c, 1, 0, 1, 1))
       /\ PostBooking(c, 1, 0, 1, 1)
  \/ \E c \in Users, id \in BookingIds : GetBooking(c, id)
  \/ \E c \in Users, id \in BookingIds, s \in StatusInputs,
        ps \in PaymentInputs, r \in ReasonInputs : PutBooking(c, id, s, ps, r)
  \/ \E c \in Users, id \in BookingIds : DeleteBooking(c, id)
  \/ \E c \in Users, pr \in Prices : nextProp = 1 /\ PostProperty(c, pr, TRUE, 0, NoFault)
  \/ \E c \in Users, id \in PropIds, o \in Users \cup {None} :
       PutProperty(c, id, o, None, 0, NoFault)
  \/ \E c \in Users, id \in PropIds : DeleteProperty(c, id, NoFault)

SpecAuth == Init /\ [][NextAuth]_vars

\* SpecRace: two connections send POST /bookings for one property; the store
\* calls of the two handlers interleave.
RaceDates == { <<0, 1>>, <<1, 3 * MsPerDay>>, <<MsPerDay, MsPerDay>> }

NextRace ==
  \/ \E pr \in Prices : nextProp = 1 /\ PostProperty(Host, pr, TRUE, 0, NoFault)
  \/ \E c \in Clients, caller \in {Guest, Host}, p \in PropIds, d \in RaceDates :
       PostBegin(c, caller, p, d[1], d[2], 1)
  \/ \E c \in Clients : PostFindProperty(c)
  \/ \E c \in Clients : PostFindConflict(c)
  \/ \E c \in Clients :
       /\ inflight[c].pc = "create"
       /\ PreValidate(inflight[c].checkIn, inflight[c].checkOut)
            => nextBooking <= MaxRaceBookings
       /\ PostCreate(c)
  \/ \E c \in Clients : PostPopulate(c)

SpecRace == Init /\ [][NextRace]_vars

\* SpecLife: one property, two bookings made one request at a time on dates
\* that meet, and the admin setting statuses and deleting bookings.
LifeBookingIds == 1 .. MaxLifeBookings

LifeDates == { <<0, 1>>, <<1, 3 * MsPerDay>> }

NextLife ==
  \/ \E pr \in Prices : nextProp = 1 /\ PostProperty(Host, pr, TRUE, 0, NoFault)
  \/ \E d \in LifeDates :
       /\ Room(MaxLifeBookings, PostBookingOutcome(Guest, 1, d[1], d[2], 1))
       /\ PostBooking(Guest, 1, d[1], d[2], 1)
  \/ \E id \in LifeBookingIds, s \in Statuses : PutBooking(Admin, id, s, None, None)
  \/ \E id \in LifeBookingIds : DeleteBooking(Admin, id)

SpecLife == Init /\ [][NextLife]_vars

\* SpecAssets: properties with image files, under either asset-store
\* selection, with faults of the store and of the asset store. The host
\* lists properties; the host and the guest update them, every identity
\* deletes them.
AssetIds == 1 .. MaxAssets

\* A request meets no asset-store fault, or one file it cannot delete.
Faults ==
  { Fault(st, {}, FALSE) : st \in BOOLEAN } \cup
  { Fault(st, {a}, again) : st \in BOOLEAN, a \in AssetIds, again \in BOOLEAN }

\* The upload of n more files stays within MaxAssets.
Space(n) == nextAsset + n - 1 <= MaxAssets

NextAssets ==
  \/ \E pr \in Prices, v \in BOOLEAN, n \in 0 .. MaxAssets, f \in Faults :
       Space(n) /\ PostProperty(Host, pr, v, n, f)
  \/ \E c \in {Guest, Host}, id \in PropIds, n \in 0 .. MaxAssets, f \in Faults :
       Space(n) /\ PutProperty(c, id, None, None, n, f)
  \/ \E c \in Users, id \in PropIds, f \in Faults : DeleteProperty(c, id, f)

SpecAssets == InitAssets /\ [][NextAssets]_vars

\* SpecViews: one property and two connections sending GET /properties/:id;
\* the store calls of the two handlers interleave.
NextViews ==
  \/ \E pr \in Prices : nextProp = 1 /\ PostProperty(Host, pr, TRUE, 0, NoFault)
  \/ \E c \in Clients, id \in PropIds : GetPropertyFind(c, id)
  \/ \E c \in Clients :
       /\ inflight[c].pc = "save"
       /\ inflight[c].views <= MaxViews
       /\ GetPropertySave(c)
  \/ \E id \in PropIds : DeleteProperty(Host, id, NoFault)

SpecViews == Init /\ [][NextViews]_vars

(* ------------------------------------------------------------ properties *)

Active(b) == b.status \in {"pending", "confirmed"}

\* Closed intervals [a1, a2] and [b1, b2] share a point.
Overlap(a1, a2, b1, b2) == a1 <= b2 /\ a2 >= b1

\* Property p has an active booking whose interval meets [d1, d2].
Taken(p, d1, d2) ==
  \E b \in bookings :
    b.property = p /\ Active(b) /\ Overlap(b.checkIn, b.checkOut, d1, d2)

Bookable(p) == FindProperty(p) # NoProperty /\ FindProperty(p).isAvailable

OwnsProperty(c, b) ==
  FindProperty(b.property) # NoProperty /\ FindProperty(b.property).owner = c

\* A POST /bookings that does not answer 201 leaves the collection as it was,
\* and one that answers 201 adds exactly one document.
PostPersistsOnlyOn201 ==
  resp'.op = "postBooking" =>
    IF resp'.code = 201
      THEN \E b \in bookings' \ bookings : bookings' = bookings \cup {b}
      ELSE bookings' = bookings

\* C1: with requests processed one at a time, POST /bookings for property p
\* and dates [d1, d2] is rejected and changes no booking whenever p has a
\* pending or confirmed booking [a, b] with a <= d2 and b >= d1 (touching
\* counts); when the request is well-formed and p is available, the rejection
\* is the 400 "already booked".
C1_ConflictRejected ==
  /\ [](\A p \in ReqPropIds, d \in DateInputs, g \in Guests :
          (d[1] # NotADate /\ Taken(p, d[1], d[2])) =>
            LET out == PostBookingOutcome(Guest, p, d[1], d[2], g) IN
            /\ out.code \in {400, 404}
            /\ (g >= 1 /\ Bookable(p)) =>
                 out = Reply("postBooking", Guest, 400, "alreadyBooked"))
  /\ [][PostPersistsOnlyOn201]_vars

\* A request was refused as already booked while the only stored booking is
\* the active one-millisecond booking [0, 1]: the request was for [0, 1]
\* again or for [1, 3 days], which only touches it.
C1_Witness ==
  /\ resp = Reply("postBooking", Guest, 400, "alreadyBooked")
  /\ \E b \in bookings : bookings = {b} /\ Active(b) /\ b.checkIn = 0 /\ b.checkOut = 1

\* C2: a POST /bookings that has passed its conflict query inserts its booking
\* at its next store call whatever the other connection has inserted since,
\* so two such requests for overlapping dates both insert (the witness is the
\* state with two active overlapping bookings on one property).
C2_InsertIgnoresLaterBookings ==
  [][\A c \in Clients :
       ( /\ inflight[c].pc = "create"
         /\ inflight'[c] # inflight[c]
         /\ inflight[c].checkOut > inflight[c].checkIn )
       => /\ inflight'[c].pc = "populate"
          /\ \E b \in bookings' \ bookings :
               /\ bookings' = bookings \cup {b}
               /\ b.property = inflight[c].property
               /\ b.checkIn = inflight[c].checkIn
               /\ b.checkOut = inflight[c].checkOut
               /\ Active(b)]_vars

C2_DoubleBooking ==
  \E b1, b2 \in bookings :
    /\ b1.id # b2.id
    /\ b1.property = b2.property
    /\ Active(b1) /\ Active(b2)
    /\ Overlap(b1.checkIn, b1.checkOut, b2.checkIn, b2.checkOut)

\* C3: once a booking's status is cancelled, no request changes it to
\* pending, confirmed or completed (the booking may still be deleted).
C3_CancelledIsTerminal ==
  [][\A b \in bookings, b2 \in bookings' :
       (b.id = b2.id /\ b.status = "cancelled") => b2.status = "cancelled"]_vars

\* C4: PUT /bookings/:id changes paymentStatus only for the owner of the
\* booking's property or an admin, and never for the booking's own user; a
\* booking's own user who sends paymentStatus with a status gets the status
\* updated and paymentStatus left as it was.
C4_PaymentStatusNotByBooker ==
  [][resp'.op = "putBooking" =>
       /\ \A b \in bookings, b2 \in bookings' :
            (b.id = b2.id /\ b2.paymentStatus # b.paymentStatus) =>
              /\ OwnsProperty(resp'.to, b) \/ Role(resp'.to) = "admin"
              /\ resp'.to # b.user
       /\ \A c \in Users, id \in BookingIds, st \in Statuses,
             ps \in PaymentInputs \ {None}, r \in ReasonInputs :
            (resp'.code = 200 /\ PutBooking(c, id, st, ps, r)) =>
              \A b \in bookings, b2 \in bookings' :
                (b.id = id /\ b2.id = id /\ b.user = c) =>
                  b2.status = st /\ b2.paymentStatus = b.paymentStatus]_vars

MayAccess(c, b) == c = b.user \/ OwnsProperty(c, b) \/ Role(c) = "admin"

\* C5: PUT /bookings/:id on a stored booking is allowed (200 for a valid
\* body) exactly when the caller is the booking's user, the owner of its
\* property or an admin; any other caller gets 403 and the booking is unchanged.
C5_PutAuthorization ==
  /\ [](\A c \in Users, id \in BookingIds, st \in StatusInputs \ {BadStatus} :
          \A b \in FindBooking(id) :
            PutBookingOutcome(c, id, st).code = IF MayAccess(c, b) THEN 200 ELSE 403)
  /\ [][(resp'.op = "putBooking" /\ resp'.code # 200) => bookings' = bookings]_vars

\* C6: GET /bookings/:id answers 404 when the booking is absent, 200 to the
\* booking's user, an admin or the owner of its property, and 403 to every
\* other caller, for every booking in the store.
C6_GetAuthorization ==
  \A c \in Users, id \in BookingIds :
    GetBookingOutcome(c, id).code =
      IF FindBooking(id) = {} THEN 404
      ELSE IF \E b \in FindBooking(id) : MayAccess(c, b) THEN 200
      ELSE 403

\* C7: a well-formed POST /bookings for a bookable property whose checkOut is
\* not after checkIn gets the date-order rejection, never "already booked",
\* whether or not an overlapping active booking exists.
C7_DateOrderBeforeConflict ==
  \A p \in PropIds, d \in DateInputs :
    (d[1] # NotADate /\ d[2] <= d[1] /\ Bookable(p)) =>
      PostBookingOutcome(Guest, p, d[1], d[2], 1).msg = "dateOrder"

\* C8: no stored booking has checkOut <= checkIn; a POST /bookings with
\* checkOut = checkIn is never accepted and persists nothing; a well-formed
\* one with checkOut = checkIn + 1 ms is accepted whenever the property
\* exists, is available and has no active booking meeting the interval.
C8_CheckOutAfterCheckIn ==
  /\ [](\A b \in bookings : b.checkOut > b.checkIn)
  /\ [](\A p \in ReqPropIds, d \in DateInputs, g \in Guests :
          LET out == PostBookingOutcome(Guest, p, d[1], d[2], g) IN
          /\ d[2] = d[1] => out.code # 201
          /\ ( /\ d[1] # NotADate /\ d[2] = d[1] + 1 /\ g >= 1 /\ p # 0
               /\ Bookable(p) /\ ~Taken(p, d[1], d[2]) )
               => out = Reply("postBooking", Guest, 201, "created"))
  /\ [][PostPersistsOnlyOn201]_vars

\* The one-millisecond booking was accepted and stored.
C8_Witness ==
  /\ resp = Reply("postBooking", Guest, 201, "created")
  /\ \E b \in bookings : b.id = nextBooking - 1 /\ b.checkOut = b.checkIn + 1

\* C9: without store faults POST /bookings answers 400 to a request that fails
\* validation (guests < 1, a malformed date, checkOut not after checkIn), 404
\* when the property does not exist, 400 when it is unavailable or the dates
\* conflict, and 201 only when a booking was persisted; a missing or
\* unavailable property is reported before the conflict check.
C9_PostStatusCodes ==
  /\ [](\A p \in ReqPropIds, d \in DateInputs, g \in Guests :
          LET out == PostBookingOutcome(Guest, p, d[1], d[2], g)
              wellFormed == p # 0 /\ d[1] # NotADate /\ g >= 1
          IN /\ ~wellFormed => out.code = 400
             /\ (wellFormed /\ FindProperty(p) = NoProperty) =>
                  out = Reply("postBooking", Guest, 404, "propertyNotFound")
             /\ (wellFormed /\ FindProperty(p) # NoProperty /\ ~Bookable(p)) =>
                  out = Reply("postBooking", Guest, 400, "unavailable")
             /\ (wellFormed /\ Bookable(p) /\ (d[2] <= d[1] \/ Taken(p, d[1], d[2]))) =>
                  out.code = 400
             /\ (wellFormed /\ Bookable(p) /\ d[2] > d[1] /\ ~Taken(p, d[1], d[2])) =>
                  out.code = 201)
  /\ [][PostPersistsOnlyOn201]_vars

\* n = ceil(x / d), stated without division.
IsCeil(n, x, d) == n * d >= x /\ (n - 1) * d < x

\* C10: the booking a successful POST /bookings creates has user = the caller,
\* status = pending, paymentStatus = pending and totalPrice = property.price *
\* ceil((checkOut - checkIn) / one day), which is property.price times its
\* derived duration.
C10_CreatedBooking ==
  [][(resp'.op = "postBooking" /\ resp'.code = 201) =>
       \E b \in bookings' \ bookings :
         /\ bookings' = bookings \cup {b}
         /\ b.user = resp'.to
         /\ b.status = "pending"
         /\ b.paymentStatus = "pending"
         /\ \E n \in 1 .. 4 :
              /\ IsCeil(n, b.checkOut - b.checkIn, MsPerDay)
              /\ b.totalPrice = FindProperty(b.property).price * n
              /\ Duration(b) = n]_vars

\* Price 100 over three days (less a millisecond, rounded up) gave 300.
C10_Witness ==
  /\ resp = Reply("postBooking", Guest, 201, "created")
  /\ \E b \in bookings :
       /\ b.id = nextBooking - 1
       /\ Duration(b) = 3
       /\ FindProperty(b.property) # NoProperty
       /\ FindProperty(b.property).price = 100
       /\ b.totalPrice = 300

\* C11: DELETE /properties/:id on a stored property by a caller who is
\* neither its owner nor an admin answers 403 whatever the faults, and leaves
\* the Property collection and every file of the asset store as they were; a
\* Property document is removed only by a DELETE of its owner or of an admin.
C11_DeleteNeedsOwnerOrAdmin ==
  /\ [](\A c \in Users, id \in PropIds, f \in Faults :
          ( /\ FindProperty(id) # NoProperty
            /\ FindProperty(id).owner # c
            /\ Role(c) # "admin" )
          => DeletePropertyOutcome(c, id, f) =
               [ reply |-> Reply("deleteProperty", c, 403, "notAuthorized"),
                 assets |-> assets ])
  /\ [][ /\ (resp'.op = "deleteProperty" /\ resp'.code = 403) =>
              properties' = properties /\ assets' = assets
         /\ \A p \in PropIds :
              (properties[p] # NoProperty /\ properties'[p] = NoProperty) =>
                /\ resp'.op = "deleteProperty"
                /\ resp'.to = properties[p].owner \/ Role(resp'.to) = "admin" ]_vars

\* The guest was refused the deletion of the host's property, which still
\* has its image files in the asset store.
C11_Witness ==
  /\ resp = Reply("deleteProperty", Guest, 403, "notAuthorized")
  /\ \E p \in PropIds :
       /\ properties[p] # NoProperty
       /\ properties[p].owner = Host
       /\ properties[p].images # <<>>
       /\ Range(properties[p].images) \subseteq assets

\* C12: a DELETE /properties/:id by the owner or an admin, on a stored
\* property and with the store itself working, answers 200 (and so removes
\* the Property document) whichever image deletion the asset store refuses,
\* under the local-disk and under the cloud asset store.
C12_AssetFaultDoesNotBlockDelete ==
  \A c \in Users, id \in PropIds, f \in Faults :
    ( /\ FindProperty(id) # NoProperty
      /\ IsOwnerOrAdmin(c, FindProperty(id))
      /\ ~f.store )
    => DeletePropertyOutcome(c, id, f).reply.code = 200

\* Files of the asset store that no Property document lists among its images.
Unreferenced ==
  assets \ UNION { Range(properties[p].images) :
                     p \in { q \in PropIds : properties[q] # NoProperty } }

\* C13: a POST /properties that does not answer 201 creates no Property
\* document and leaves none of its uploaded files in the asset store: the
\* files no document references are the same after the request as before.
C13_FailedPostLeavesNoFiles ==
  [][(resp'.op = "postProperty" /\ resp'.code # 201) =>
       /\ properties' = properties
       /\ \A a \in nextAsset .. (nextAsset' - 1) : a \notin assets'
       /\ Unreferenced' = Unreferenced]_vars

\* C14: a GET /properties/:id that answers 200 leaves the property's views
\* one higher than they were just before its write, whatever the other
\* connection has done since the read, so views count the completed GETs and
\* no request lowers them.
C14_ViewsCountGets ==
  [][ /\ \A c \in Clients :
           ( /\ inflight[c].pc = "save"
             /\ inflight'[c] = Idle
             /\ resp'.code = 200 )
           => properties'[inflight[c].id].views =
                properties[inflight[c].id].views + 1
      /\ \A p \in PropIds :
           (properties[p] # NoProperty /\ properties'[p] # NoProperty) =>
             properties'[p].views >= properties[p].views ]_vars

\* C15: no request ends without a response: every handler of /api/bookings
\* and /api/properties that has run, whatever store call or asset-store
\* deletion failed on its way (also in the cleanup of its own failure paths),
\* has sent one response with an HTTP status.
C15_EveryRequestAnswered ==
  resp.op # "none" => resp.code \in {200, 201, 400, 403, 404, 500}

\* C16: the owner of a property is the caller of the POST /properties that
\* created it, and no later request changes the owner of a stored property.
C16_OwnerImmutable ==
  [][ /\ (resp'.op = "postProperty" /\ resp'.code = 201) =>
           properties'[nextProp].owner = resp'.to
      /\ \A p \in PropIds :
           (properties[p] # NoProperty /\ properties'[p] # NoProperty) =>
             properties'[p].owner = properties[p].owner ]_vars

\* C17: with requests run one at a time, no two stored bookings of one
\* property are both pending or confirmed with closed intervals that meet,
\* after any sequence of booking creations, status updates and deletions.
C17_NoActiveOverlap ==
  \A b1 \in bookings, b2 \in bookings :
    ( /\ b1.id # b2.id
      /\ b1.property = b2.property
      /\ Active(b1)
      /\ Active(b2) )
    => ~Overlap(b1.checkIn, b1.checkOut, b2.checkIn, b2.checkOut)

\* C18: every stored booking's property is a stored Property document.
C18_BookingPropertyExists ==
  \A b \in bookings : FindProperty(b.property) # NoProperty

\* C19: a stored booking has cancelledAt exactly when its status is
\* cancelled, and a request writes cancellationReason only on a booking it
\* leaves cancelled.
C19_CancelledAtIffCancelled ==
  /\ [](\A b \in bookings : b.cancelledAt <=> b.status = "cancelled")
  /\ [][\A b \in bookings, b2 \in bookings' :
          (b.id = b2.id /\ b2.cancellationReason # b.cancellationReason) =>
            b2.status = "cancelled"]_vars

====
